---- MODULE Spec2Model ----
(***************************************************************************)
(* Model of the configuration loader of atmos, internal/config/config.go.  *)
(* InitConfig merges the built-in defaults, up to three YAML files and      *)
(* three environment variables into the process-wide Config record, checks *)
(* it, converts the directories to absolute paths and expands the stack    *)
(* globs into the list of stack config files.                              *)
(*                                                                         *)
(* A Go string is a sequence of one-character strings, so that             *)
(* strings.Split, filepath.Ext, filepath.Abs and glob matching are         *)
(* computed character by character.                                        *)
(***************************************************************************)
EXTENDS Naturals, Sequences, FiniteSets, TLC

VARIABLES
    goos,        \* runtime.GOOS
    environ,     \* the process environment: name -> [set, val]
    homeDir,     \* what homedir.Dir() yields: [ok, val]
    workDir,     \* what os.Getwd() yields: [ok, val]
    cfgFiles,    \* the file at each candidate location 1..3: [status, content]
    pc,          \* position of the control flow inside InitConfig
    cand,        \* candidate location being processed (1 system, 2 home, 3 cwd)
    v,           \* the viper store of the running InitConfig
    Config,      \* the package-level Configuration record
    openFiles,   \* candidate locations whose *os.File is open
    fileErr,     \* the error processConfigFile is about to return
    err,         \* the error returned by the last InitConfig
    run,         \* number of InitConfig calls started in this process
    prev,        \* Config and err as the previous InitConfig call left them
    trail        \* the steps the running (or last) InitConfig call has taken

vars == <<goos, environ, homeDir, workDir, cfgFiles, pc, cand, v, Config,
          openFiles, fileErr, err, run, prev, trail>>

world == <<goos, environ, homeDir, workDir, cfgFiles>>

\* Number of InitConfig calls made by the process in the model.
MaxRuns == 2

-----------------------------------------------------------------------------
(* String literals of the program and of the modelled inputs.              *)

Slash == "/"
Dot == "."
Comma == ","
Star == "*"

\* "./stacks/*"
DefaultStackDir == <<".", "/", "s", "t", "a", "c", "k", "s", "/", "*">>
\* "./components/terraform"
DefaultTerraformDir ==
    <<".", "/", "c", "o", "m", "p", "o", "n", "e", "n", "t", "s", "/",
      "t", "e", "r", "r", "a", "f", "o", "r", "m">>
\* "environment-stage"
DefaultStackNamePattern ==
    <<"e", "n", "v", "i", "r", "o", "n", "m", "e", "n", "t", "-",
      "s", "t", "a", "g", "e">>
\* ".yaml"
DefaultStackConfigFileExtension == <<".", "y", "a", "m", "l">>

Keys == {"StackDirs", "TerraformDir", "StackNamePattern"}

\* Defaults with another terraform directory ("./terraform").
defaultConfigOther ==
    [StackDirs |-> <<DefaultStackDir>>,
     TerraformDir |-> <<".", "/", "t", "e", "r", "r", "a", "f", "o", "r", "m">>,
     StackNamePattern |-> DefaultStackNamePattern]

defaultConfig ==
    [StackDirs |-> <<DefaultStackDir>>,
     TerraformDir |-> DefaultTerraformDir,
     StackNamePattern |-> DefaultStackNamePattern]

\* The zero value of the Configuration struct.
ZeroConfig ==
    [StackNamePattern |-> <<>>,
     StackDirs |-> <<>>,
     StackDirsAbsolutePaths |-> <<>>,
     TerraformDir |-> <<>>,
     TerraformDirAbsolutePath |-> <<>>,
     StackConfigFiles |-> <<>>]

\* Go error values: kind "nil" is the nil error; globs is the payload of
\* the "no config files" message.
Error(kind) == [kind |-> kind, globs |-> <<>>]
Nil == Error("nil")

-----------------------------------------------------------------------------
(* Library functions, computed on character sequences.                     *)

\* Index of the first occurrence of character c in s at or after i, 0 if none.
RECURSIVE IndexFrom(_, _, _)
IndexFrom(s, c, i) ==
    IF i > Len(s) THEN 0
    ELSE IF s[i] = c THEN i
    ELSE IndexFrom(s, c, i + 1)

\* strings.Split(s, sep) for a one-character separator.
RECURSIVE Split(_, _)
Split(s, sep) ==
    LET i == IndexFrom(s, sep, 1)
    IN  IF i = 0 THEN <<s>>
        ELSE <<SubSeq(s, 1, i - 1)>> \o Split(SubSeq(s, i + 1, Len(s)), sep)

\* filepath.Ext: the suffix starting at the last dot of the last path
\* element, scanning backwards and stopping at a separator.
RECURSIVE ExtFrom(_, _)
ExtFrom(p, i) ==
    IF i < 1 THEN <<>>
    ELSE IF p[i] = Slash THEN <<>>
    ELSE IF p[i] = Dot THEN SubSeq(p, i, Len(p))
    ELSE ExtFrom(p, i - 1)

Ext(p) == ExtFrom(p, Len(p))

\* filepath.Clean on the elements of a rooted path: empty and "." elements
\* are dropped, ".." removes the element before it (and is dropped at the root).
RECURSIVE CleanElems(_, _)
CleanElems(elems, acc) ==
    IF elems = <<>> THEN acc
    ELSE LET e == Head(elems)
         IN  IF e = <<>> \/ e = <<".">> THEN CleanElems(Tail(elems), acc)
             ELSE IF e = <<".", ".">>
                  THEN CleanElems(Tail(elems),
                                  IF acc = <<>> THEN acc
                                  ELSE SubSeq(acc, 1, Len(acc) - 1))
             ELSE CleanElems(Tail(elems), Append(acc, e))

RECURSIVE JoinRooted(_)
JoinRooted(elems) ==
    IF elems = <<>> THEN <<>>
    ELSE <<Slash>> \o Head(elems) \o JoinRooted(Tail(elems))

\* filepath.Clean of a rooted path.
Clean(p) ==
    LET elems == CleanElems(Split(p, Slash), <<>>)
    IN  IF elems = <<>> THEN <<Slash>> ELSE JoinRooted(elems)

IsAbs(p) == Len(p) > 0 /\ p[1] = Slash

\* filepath.Abs with working directory wd: an absolute path is cleaned, a
\* relative one is joined to wd and cleaned.
Abs(p, wd) == IF IsAbs(p) THEN Clean(p) ELSE Clean(wd \o <<Slash>> \o p)

\* Matching of one path element against one pattern element: "*" matches any
\* run of characters of the element, any other character matches itself.
RECURSIVE MatchName(_, _)
MatchName(pat, name) ==
    IF pat = <<>> THEN name = <<>>
    ELSE IF Head(pat) = Star
         THEN \/ MatchName(Tail(pat), name)
              \/ (name # <<>> /\ MatchName(pat, Tail(name)))
    ELSE /\ name # <<>>
         /\ Head(name) = Head(pat)
         /\ MatchName(Tail(pat), Tail(name))

\* Matching of the elements of a path against those of a pattern: the element
\* "**" matches zero or more path elements.
RECURSIVE MatchElems(_, _)
MatchElems(pats, names) ==
    IF pats = <<>> THEN names = <<>>
    ELSE IF Head(pats) = <<Star, Star>>
         THEN \/ MatchElems(Tail(pats), names)
              \/ (names # <<>> /\ MatchElems(pats, Tail(names)))
    ELSE /\ names # <<>>
         /\ MatchName(Head(pats), Head(names))
         /\ MatchElems(Tail(pats), Tail(names))

Match(pattern, path) == MatchElems(Split(pattern, Slash), Split(path, Slash))

\* A pattern with a character class that is never closed is malformed.
BadPattern(pattern) ==
    \E i \in 1..Len(pattern) :
        /\ pattern[i] = "["
        /\ \A j \in (i + 1)..Len(pattern) : pattern[j] # "]"

-----------------------------------------------------------------------------
(* The modelled inputs: environment, candidate files, stack files on disk. *)

EnvNames == {"LOCALAPPDATA", "ATMOS_STACK_DIRS", "ATMOS_TERRAFORM_DIR",
             "ATMOS_STACK_NAME_PATTERN"}

Unset == [set |-> FALSE, val |-> <<>>]
SetTo(s) == [set |-> TRUE, val |-> s]

\* os.Getenv: the value of a set variable, "" for an unset one.
Getenv(name) == IF environ[name].set THEN environ[name].val ELSE <<>>

\* Values tried for ATMOS_STACK_DIRS: unset, "", "stacks/b,s1/*.json", "a,b,c".
StackDirsEnvValues ==
    {Unset, SetTo(<<>>),
     SetTo(<<"s", "t", "a", "c", "k", "s", "/", "b", ",",
             "s", "1", "/", "*", ".", "j", "s", "o", "n">>),
     SetTo(<<"a", ",", "b", ",", "c">>)}
\* Values tried for ATMOS_TERRAFORM_DIR: unset, "", "te".
TerraformDirEnvValues == {Unset, SetTo(<<>>), SetTo(<<"t", "e">>)}
\* Values tried for ATMOS_STACK_NAME_PATTERN: unset, "", "pe".
StackNamePatternEnvValues == {Unset, SetTo(<<>>), SetTo(<<"p", "e">>)}
\* Values tried for LOCALAPPDATA: unset, "/d".
AppDataEnvValues == {Unset, SetTo(<<"/", "d">>)}

Digit(k) == CASE k = 1 -> "1" [] k = 2 -> "2" [] OTHER -> "3"

\* StackDirs lists a file at location k may carry:
\*   1: ["s1/*", "s1/a"]   2: ["**/a", "s2/*.yaml"]   3: ["s3/*", "["]
StackDirsOf(k) ==
    CASE k = 1 -> << <<"s", "1", "/", "*">>, <<"s", "1", "/", "a">> >>
      [] k = 2 -> << <<"*", "*", "/", "a">>,
                     <<"s", "2", "/", "*", ".", "y", "a", "m", "l">> >>
      [] OTHER -> << <<"s", "3", "/", "*">>, <<"[">> >>

\* Parsed contents a well-formed file at location k may have: each maps the
\* keys the file sets to their values (the values carry k, so that the
\* sources can be told apart).
FileContents(k) ==
    { ("StackDirs" :> StackDirsOf(k)),
      ("TerraformDir" :> <<"t", Digit(k)>>) @@ ("StackNamePattern" :> <<>>),
      ("StackDirs" :> <<>>) @@ ("TerraformDir" :> <<>>)
          @@ ("StackNamePattern" :> <<"p", Digit(k)>>) }

NoContent == ("none" :> <<>>)

FileStates(k) ==
    {[status |-> s, content |-> NoContent] :
        s \in {"absent", "unreadable", "malformed"}}
    \cup {[status |-> "ok", content |-> c] : c \in FileContents(k)}

\* The regular files below the working directory, in directory order.
StackFiles ==
    << <<"/", "w", "/", "s", "1", "/", "a", ".", "y", "a", "m", "l">>,
       <<"/", "w", "/", "s", "1", "/", "b", ".", "j", "s", "o", "n">>,
       <<"/", "w", "/", "s", "2", "/", "a", ".", "y", "a", "m", "l">>,
       <<"/", "w", "/", "s", "t", "a", "c", "k", "s", "/", "a", ".", "y", "a", "m", "l">>,
       <<"/", "w", "/", "s", "t", "a", "c", "k", "s", "/", "b", ".", "y", "a", "m", "l">>,
       <<"/", "w", "/", "s", "t", "a", "c", "k", "s", "/", "c", ".", "j", "s", "o", "n">> >>

\* doublestar.Glob: the files matching the pattern, in directory order.
Glob(pattern) ==
    LET Hit(f) == Match(pattern, f)
    IN  SelectSeq(StackFiles, Hit)

\* u.FileExists on the candidate location k.
FileExists(k) == cfgFiles[k].status # "absent"

-----------------------------------------------------------------------------
(* The functions of config.go.                                             *)

\* A merge in which a value already in the store is kept.
MergeConfigKeepStored(store, content) ==
    [k \in DOMAIN store \cup DOMAIN content |->
        IF k \in DOMAIN store THEN store[k] ELSE content[k]]

\* viper's MergeConfig and MergeConfigMap: every key of the merged content
\* replaces the stored value, the other keys of the store are kept.
MergeConfig(store, content) ==
    [k \in DOMAIN store \cup DOMAIN content |->
        IF k \in DOMAIN content THEN content[k] ELSE store[k]]

\* The store of viper.New().
EmptyStore == [k \in {} |-> <<>>]

\* Decoding of a list into a slice field that already holds one: the
\* elements are decoded in place and elements beyond the list are kept.
DecodeSlice(old, data) ==
    [i \in 1..(IF Len(old) > Len(data) THEN Len(old) ELSE Len(data)) |->
        IF i <= Len(data) THEN data[i] ELSE old[i]]

\* v.Unmarshal(&Config): the three tagged fields are decoded from the store.
Unmarshal(store, c) ==
    [c EXCEPT !.StackNamePattern = store["StackNamePattern"],
              !.StackDirs = DecodeSlice(c.StackDirs, store["StackDirs"]),
              !.TerraformDir = store["TerraformDir"]]

\* Overrides in which ATMOS_STACK_DIRS is taken as one directory.
processEnvVarsNoSplit(c) ==
    LET stackDirs == Getenv("ATMOS_STACK_DIRS")
        terraformDir == Getenv("ATMOS_TERRAFORM_DIR")
        stackNamePattern == Getenv("ATMOS_STACK_NAME_PATTERN")
        c1 == IF Len(stackDirs) > 0
              THEN [c EXCEPT !.StackDirs = <<stackDirs>>] ELSE c
        c2 == IF Len(terraformDir) > 0
              THEN [c1 EXCEPT !.TerraformDir = terraformDir] ELSE c1
    IN  IF Len(stackNamePattern) > 0
        THEN [c2 EXCEPT !.StackNamePattern = stackNamePattern] ELSE c2

\* Overrides applied whenever the variable is set (os.LookupEnv), empty or not.
processEnvVarsIfSet(c) ==
    LET c1 == IF environ["ATMOS_STACK_DIRS"].set
              THEN [c EXCEPT !.StackDirs =
                                 Split(environ["ATMOS_STACK_DIRS"].val, Comma)]
              ELSE c
        c2 == IF environ["ATMOS_TERRAFORM_DIR"].set
              THEN [c1 EXCEPT !.TerraformDir = environ["ATMOS_TERRAFORM_DIR"].val]
              ELSE c1
    IN  IF environ["ATMOS_STACK_NAME_PATTERN"].set
        THEN [c2 EXCEPT !.StackNamePattern =
                            environ["ATMOS_STACK_NAME_PATTERN"].val]
        ELSE c2

\* Overrides in which the directories of ATMOS_STACK_DIRS are appended to
\* the ones the record holds.
processEnvVarsAppend(c) ==
    LET stackDirs == Getenv("ATMOS_STACK_DIRS")
        terraformDir == Getenv("ATMOS_TERRAFORM_DIR")
        stackNamePattern == Getenv("ATMOS_STACK_NAME_PATTERN")
        c1 == IF Len(stackDirs) > 0
              THEN [c EXCEPT !.StackDirs = c.StackDirs \o Split(stackDirs, Comma)]
              ELSE c
        c2 == IF Len(terraformDir) > 0
              THEN [c1 EXCEPT !.TerraformDir = terraformDir] ELSE c1
    IN  IF Len(stackNamePattern) > 0
        THEN [c2 EXCEPT !.StackNamePattern = stackNamePattern] ELSE c2

processEnvVars(c) ==
    LET stackDirs == Getenv("ATMOS_STACK_DIRS")
        terraformDir == Getenv("ATMOS_TERRAFORM_DIR")
        stackNamePattern == Getenv("ATMOS_STACK_NAME_PATTERN")
        c1 == IF Len(stackDirs) > 0
              THEN [c EXCEPT !.StackDirs = Split(stackDirs, Comma)] ELSE c
        c2 == IF Len(terraformDir) > 0
              THEN [c1 EXCEPT !.TerraformDir = terraformDir] ELSE c1
    IN  IF Len(stackNamePattern) > 0
        THEN [c2 EXCEPT !.StackNamePattern = stackNamePattern] ELSE c2

\* A check that forgets StackNamePattern.
checkConfigTwoFields(c) ==
    IF Len(c.StackDirs) < 1 THEN Error("StackDirsRequired")
    ELSE IF Len(c.TerraformDir) < 1 THEN Error("TerraformDirRequired")
    ELSE Nil

checkConfig(c) ==
    IF Len(c.StackDirs) < 1 THEN Error("StackDirsRequired")
    ELSE IF Len(c.TerraformDir) < 1 THEN Error("TerraformDirRequired")
    ELSE IF Len(c.StackNamePattern) < 1 THEN Error("StackNamePatternRequired")
    ELSE Nil

\* u.ConvertPathsToAbsolutePaths: filepath.Abs of every entry, in order.
ConvertPathsToAbsolutePaths(paths, wd) ==
    [i \in 1..Len(paths) |-> Abs(paths[i], wd)]

\* A loop that appends the default extension to every glob.
RECURSIVE FindLoopAlwaysExt(_, _)
FindLoopAlwaysExt(pathGlobs, res) ==
    IF pathGlobs = <<>> THEN [res |-> res, err |-> Nil]
    ELSE LET pathWithExt == Head(pathGlobs) \o DefaultStackConfigFileExtension
         IN  IF BadPattern(pathWithExt)
             THEN [res |-> <<>>, err |-> Error("BadPattern")]
             ELSE FindLoopAlwaysExt(Tail(pathGlobs), res \o Glob(pathWithExt))

\* The loop of findAllStackConfigsInPaths over the remaining globs.
RECURSIVE FindLoop(_, _)
FindLoop(pathGlobs, res) ==
    IF pathGlobs = <<>> THEN [res |-> res, err |-> Nil]
    ELSE LET p == Head(pathGlobs)
             pathWithExt == IF Ext(p) = <<>>
                            THEN p \o DefaultStackConfigFileExtension
                            ELSE p
         IN  IF BadPattern(pathWithExt)
             THEN [res |-> <<>>, err |-> Error("BadPattern")]
             ELSE LET matches == Glob(pathWithExt)
                  IN  FindLoop(Tail(pathGlobs),
                               IF Len(matches) > 0 THEN res \o matches ELSE res)

findAllStackConfigsInPaths(pathGlobs) == FindLoop(pathGlobs, <<>>)

\* An empty list of found files passes.
NoConfigFilesErrorNever(stackConfigFiles, absPaths) == Nil

\* The error InitConfig returns for the found files, nil if there are some.
NoConfigFilesError(stackConfigFiles, absPaths) ==
    IF Len(stackConfigFiles) < 1
    THEN [kind |-> "NoConfigFiles", globs |-> absPaths]
    ELSE Nil

-----------------------------------------------------------------------------
(* The state machine: one process calling InitConfig up to MaxRuns times.  *)

Init ==
    /\ goos \in {"linux", "windows"}
    /\ environ \in
          [EnvNames -> AppDataEnvValues \cup StackDirsEnvValues
                         \cup TerraformDirEnvValues
                         \cup StackNamePatternEnvValues]
    /\ environ["LOCALAPPDATA"] \in AppDataEnvValues
    /\ goos = "linux" => environ["LOCALAPPDATA"] = Unset
    /\ environ["ATMOS_STACK_DIRS"] \in StackDirsEnvValues
    /\ environ["ATMOS_TERRAFORM_DIR"] \in TerraformDirEnvValues
    /\ environ["ATMOS_STACK_NAME_PATTERN"] \in StackNamePatternEnvValues
    /\ homeDir \in {[ok |-> FALSE, val |-> <<>>], [ok |-> TRUE, val |-> <<"/", "h">>]}
    /\ workDir \in {[ok |-> FALSE, val |-> <<>>], [ok |-> TRUE, val |-> <<"/", "w">>]}
    /\ cfgFiles \in {f \in [1..3 -> UNION {FileStates(k) : k \in 1..3}] :
                        \A k \in 1..3 : f[k] \in FileStates(k)}
    /\ pc = "idle"
    /\ cand = 1
    /\ v = EmptyStore
    /\ Config = ZeroConfig
    /\ openFiles = {}
    /\ fileErr = Nil
    /\ err = Nil
    /\ run = 0
    /\ prev = [Config |-> ZeroConfig, err |-> Nil]
    /\ trail = <<>>

\* A step of the call: op on candidate location k (0 when not about a file).
Step(op, k) == [op |-> op, k |-> k]
Log(op, k) == trail' = Append(trail, Step(op, k))

\* InitConfig returns e.
Return(e) ==
    /\ pc' = "done"
    /\ err' = e

\* The next candidate after location k, or the decoding after the last one.
NextCandidate(k) ==
    IF k < 3
    THEN /\ cand' = k + 1
         /\ pc' = "resolve"
    ELSE /\ cand' = k
         /\ pc' = "unmarshal"

\* InitConfig is called: a new viper store holding the defaults.
Start ==
    /\ pc \in {"idle", "done"}
    /\ run < MaxRuns
    /\ run' = run + 1
    /\ prev' = [Config |-> Config, err |-> err]
    /\ v' = MergeConfig(EmptyStore, defaultConfig)
    /\ cand' = 1
    /\ pc' = "resolve"
    /\ err' = Nil
    /\ fileErr' = Nil
    /\ trail' = <<>>
    /\ UNCHANGED <<world, Config, openFiles>>

\* The system candidate: LOCALAPPDATA on windows (none if empty), the fixed
\* directory elsewhere.
ResolveSystem ==
    /\ pc = "resolve"
    /\ cand = 1
    /\ IF goos = "windows" /\ ~(Len(Getenv("LOCALAPPDATA")) > 0)
       THEN NextCandidate(1)
       ELSE pc' = "exists" /\ cand' = cand
    /\ UNCHANGED <<world, v, Config, openFiles, fileErr, err, run, prev, trail>>

\* The home candidate: homedir.Dir() may fail.
ResolveHome ==
    /\ pc = "resolve"
    /\ cand = 2
    /\ IF homeDir.ok
       THEN pc' = "exists" /\ err' = err
       ELSE Return(Error("HomeDir"))
    /\ UNCHANGED <<world, cand, v, Config, openFiles, fileErr, run, prev, trail>>

\* The current-directory candidate: os.Getwd() may fail.
ResolveCwd ==
    /\ pc = "resolve"
    /\ cand = 3
    /\ IF workDir.ok
       THEN pc' = "exists" /\ err' = err
       ELSE Return(Error("Getwd"))
    /\ UNCHANGED <<world, cand, v, Config, openFiles, fileErr, run, prev, trail>>

\* processConfigFile up to os.Open: a missing file is skipped, a file that
\* cannot be opened is an error.
OpenFile ==
    /\ pc = "exists"
    /\ IF ~FileExists(cand)
       THEN /\ NextCandidate(cand)
            /\ Log("absent", cand)
            /\ UNCHANGED <<openFiles, err>>
       ELSE IF cfgFiles[cand].status = "unreadable"
       THEN /\ Return(Error("Open"))
            /\ Log("openfail", cand)
            /\ UNCHANGED <<openFiles, cand>>
       ELSE /\ openFiles' = openFiles \cup {cand}
            /\ pc' = "merge"
            /\ Log("open", cand)
            /\ UNCHANGED <<err, cand>>
    /\ UNCHANGED <<world, v, Config, fileErr, run, prev>>

\* v.MergeConfig(reader): a parse error is handed to the return, otherwise
\* the keys of the file are merged into the store.
MergeFile ==
    /\ pc = "merge"
    /\ IF cfgFiles[cand].status = "malformed"
       THEN /\ fileErr' = Error("Parse")
            /\ v' = v
            /\ Log("parsefail", cand)
       ELSE /\ fileErr' = Nil
            /\ v' = MergeConfig(v, cfgFiles[cand].content)
            /\ Log("merged", cand)
    /\ pc' = "close"
    /\ UNCHANGED <<world, cand, Config, openFiles, err, run, prev>>

\* A return of processConfigFile that loses the parse error.
CloseFileErrorLost ==
    /\ pc = "close"
    /\ openFiles' = openFiles \ {cand}
    /\ NextCandidate(cand)
    /\ err' = err
    /\ fileErr' = Nil
    /\ Log("close", cand)
    /\ UNCHANGED <<world, v, Config, run, prev>>

\* A close that is not deferred: the parse error returns before it.
CloseFileNotDeferred ==
    /\ pc = "close"
    /\ IF fileErr # Nil
       THEN /\ Return(fileErr)
            /\ cand' = cand
            /\ openFiles' = openFiles
       ELSE /\ NextCandidate(cand)
            /\ err' = err
            /\ openFiles' = openFiles \ {cand}
    /\ fileErr' = Nil
    /\ Log("close", cand)
    /\ UNCHANGED <<world, v, Config, run, prev>>

\* The deferred reader.Close() and the return of processConfigFile to
\* InitConfig, which returns the error or goes on.
CloseFile ==
    /\ pc = "close"
    /\ openFiles' = openFiles \ {cand}
    /\ IF fileErr # Nil
       THEN /\ Return(fileErr)
            /\ cand' = cand
       ELSE /\ NextCandidate(cand)
            /\ err' = err
    /\ fileErr' = Nil
    /\ Log("close", cand)
    /\ UNCHANGED <<world, v, Config, run, prev>>

\* v.Unmarshal(&Config)
UnmarshalConfig ==
    /\ pc = "unmarshal"
    /\ Config' = Unmarshal(v, Config)
    /\ pc' = "env"
    /\ Log("unmarshal", 0)
    /\ UNCHANGED <<world, cand, v, openFiles, fileErr, err, run, prev>>

\* processEnvVars()
ProcessEnv ==
    /\ pc = "env"
    /\ Config' = processEnvVars(Config)
    /\ pc' = "check"
    /\ Log("env", 0)
    /\ UNCHANGED <<world, cand, v, openFiles, fileErr, err, run, prev>>

\* checkConfig()
Check ==
    /\ pc = "check"
    /\ IF checkConfig(Config) # Nil
       THEN Return(checkConfig(Config))
       ELSE pc' = "abs" /\ err' = err
    /\ Log("check", 0)
    /\ UNCHANGED <<world, cand, v, Config, openFiles, fileErr, run, prev>>

\* The stack dirs and the terraform dir are converted to absolute paths.
AbsolutePaths ==
    /\ pc = "abs"
    /\ Config' =
          [Config EXCEPT
              !.StackDirsAbsolutePaths =
                  ConvertPathsToAbsolutePaths(Config.StackDirs, workDir.val),
              !.TerraformDirAbsolutePath = Abs(Config.TerraformDir, workDir.val)]
    /\ pc' = "find"
    /\ Log("abs", 0)
    /\ UNCHANGED <<world, cand, v, openFiles, fileErr, err, run, prev>>

\* The stack config files are looked up; none found is an error.
FindStackConfigs ==
    /\ pc = "find"
    /\ LET absPaths == Config.StackDirsAbsolutePaths
           found == findAllStackConfigsInPaths(absPaths)
       IN  IF found.err # Nil
           THEN Return(found.err) /\ Config' = Config
           ELSE IF NoConfigFilesError(found.res, absPaths) # Nil
           THEN Return(NoConfigFilesError(found.res, absPaths)) /\ Config' = Config
           ELSE /\ Config' = [Config EXCEPT !.StackConfigFiles = found.res]
                /\ Return(Nil)
    /\ Log("find", 0)
    /\ UNCHANGED <<world, cand, v, openFiles, fileErr, run, prev>>

Next ==
    \/ Start
    \/ ResolveSystem
    \/ ResolveHome
    \/ ResolveCwd
    \/ OpenFile
    \/ MergeFile
    \/ CloseFile
    \/ UnmarshalConfig
    \/ ProcessEnv
    \/ Check
    \/ AbsolutePaths
    \/ FindStackConfigs

Spec == Init /\ [][Next]_vars

-----------------------------------------------------------------------------
(* Vocabulary of the properties.                                           *)

\* The running (or last) call has taken the step op.
Did(op) == \E i \in 1..Len(trail) : trail[i].op = op

\* The environment variable that overrides a key.
EnvVarOf(key) ==
    CASE key = "StackDirs" -> "ATMOS_STACK_DIRS"
      [] key = "TerraformDir" -> "ATMOS_TERRAFORM_DIR"
      [] OTHER -> "ATMOS_STACK_NAME_PATTERN"

\* The variable is set to a non-empty string.
EnvSets(key) == environ[EnvVarOf(key)].set /\ environ[EnvVarOf(key)].val # <<>>

\* The sequence whose parts, joined by commas, spell s and hold no comma.
RECURSIVE JoinComma(_)
JoinComma(parts) ==
    IF Len(parts) = 1 THEN parts[1]
    ELSE parts[1] \o <<Comma>> \o JoinComma(Tail(parts))

IsSplitOf(parts, s) ==
    /\ Len(parts) >= 1
    /\ \A i \in 1..Len(parts) : \A j \in 1..Len(parts[i]) : parts[i][j] # Comma
    /\ JoinComma(parts) = s

\* The variable of the key is set to a non-empty string.
EnvVarNonEmpty(name) == environ[name].set /\ environ[name].val # <<>>

\* Location k is a candidate of this process (the system location is none on
\* windows without LOCALAPPDATA).
IsCandidate(k) ==
    k = 1 => (goos # "windows" \/ EnvVarNonEmpty("LOCALAPPDATA"))

\* The well-formed file at candidate location k sets the key.
FileSets(k, key) ==
    /\ IsCandidate(k)
    /\ cfgFiles[k].status = "ok"
    /\ key \in DOMAIN cfgFiles[k].content

\* The value of the highest-priority file that sets the key, the built-in
\* default if no file does.
FileWinner(key) ==
    IF \E k \in 1..3 : FileSets(k, key)
    THEN LET top == CHOOSE k \in 1..3 :
                        /\ FileSets(k, key)
                        /\ \A j \in 1..3 : FileSets(j, key) => j <= k
         IN  cfgFiles[top].content[key]
    ELSE CASE key = "StackDirs" -> <<DefaultStackDir>>
           [] key = "TerraformDir" -> DefaultTerraformDir
           [] OTHER -> DefaultStackNamePattern

\* The record field of a key.
Field(c, key) ==
    CASE key = "StackDirs" -> c.StackDirs
      [] key = "TerraformDir" -> c.TerraformDir
      [] OTHER -> c.StackNamePattern

-----------------------------------------------------------------------------
(* C1: once the files are merged and the environment overrides applied,    *)
(* each of StackDirs, TerraformDir and StackNamePattern holds the value of *)
(* the highest-priority source that sets it: the environment variable if   *)
(* it is non-empty, else the current-directory file, else the home file,   *)
(* else the system file, else the built-in default.                        *)
C1_HighestPriorityWins ==
    Did("env") =>
        \A key \in Keys :
            IF EnvSets(key)
            THEN IF key = "StackDirs"
                 THEN IsSplitOf(Config.StackDirs, environ[EnvVarOf(key)].val)
                 ELSE Field(Config, key) = environ[EnvVarOf(key)].val
            ELSE Field(Config, key) = FileWinner(key)

\* The three files set TerraformDir and StackNamePattern, the environment
\* sets only the latter: the current-directory file gives TerraformDir and
\* the variable gives StackNamePattern.
C1_Witness ==
    /\ Did("env")
    /\ \A k \in 1..3 : FileSets(k, "TerraformDir") /\ FileSets(k, "StackNamePattern")
    /\ ~EnvSets("TerraformDir")
    /\ EnvSets("StackNamePattern")
    /\ Config.TerraformDir = <<"t", "3">>
    /\ Config.StackNamePattern = <<"p", "e">>

(* C2: with no candidate file present and none of the three variables set, *)
(* a call that resolves its candidate locations leaves StackDirs =         *)
(* ["./stacks/*"], TerraformDir = "./components/terraform" and             *)
(* StackNamePattern = "environment-stage".                                 *)
NoFilesNoEnv ==
    /\ \A k \in 1..3 : cfgFiles[k].status = "absent"
    /\ \A key \in Keys : ~environ[EnvVarOf(key)].set

\* C2: no file, no variable: the record holds exactly the built-in defaults.
C2_DefaultsOnly ==
    (pc = "done" /\ run >= 1 /\ NoFilesNoEnv /\ homeDir.ok /\ workDir.ok) =>
        /\ Config.StackDirs = << <<".", "/", "s", "t", "a", "c", "k", "s", "/", "*">> >>
        /\ Config.TerraformDir =
              <<".", "/", "c", "o", "m", "p", "o", "n", "e", "n", "t", "s", "/",
                "t", "e", "r", "r", "a", "f", "o", "r", "m">>
        /\ Config.StackNamePattern =
              <<"e", "n", "v", "i", "r", "o", "n", "m", "e", "n", "t", "-",
                "s", "t", "a", "g", "e">>

C2_Witness ==
    /\ pc = "done"
    /\ NoFilesNoEnv
    /\ err = Nil
    /\ Len(Config.StackDirs) = 1
    /\ Did("find")

(* C3: when ATMOS_STACK_DIRS is non-empty, the StackDirs left by the        *)
(* environment overrides is the sequence of its comma-separated parts in   *)
(* order ("a,b,c" gives ["a","b","c"]), whatever the files and defaults    *)
(* provide.                                                                *)
C3_StackDirsFromEnv ==
    (Did("env") /\ EnvSets("StackDirs")) =>
        /\ IsSplitOf(Config.StackDirs, environ["ATMOS_STACK_DIRS"].val)
        /\ environ["ATMOS_STACK_DIRS"].val = <<"a", ",", "b", ",", "c">>
              => Config.StackDirs = << <<"a">>, <<"b">>, <<"c">> >>

\* "a,b,c" is set while the current-directory file gives a StackDirs list.
C3_Witness ==
    /\ Did("env")
    /\ environ["ATMOS_STACK_DIRS"].val = <<"a", ",", "b", ",", "c">>
    /\ FileSets(3, "StackDirs")
    /\ Config.StackDirs = << <<"a">>, <<"b">>, <<"c">> >>

(* C4: in processEnvVars a variable that is set to the empty string acts   *)
(* like an unset one: the field of its key keeps the value decoded from    *)
(* the store, and every other field is the one its own variable gives      *)
(* (kept if that one is unset or empty, overwritten if it is non-empty).   *)
C4_Step ==
    pc = "env" =>
        /\ \A key \in Keys :
              IF EnvSets(key)
              THEN IF key = "StackDirs"
                   THEN IsSplitOf(Config'.StackDirs, environ[EnvVarOf(key)].val)
                   ELSE Field(Config', key) = environ[EnvVarOf(key)].val
              ELSE Field(Config', key) = Field(Config, key)
        /\ Config'.StackDirsAbsolutePaths = Config.StackDirsAbsolutePaths
        /\ Config'.TerraformDirAbsolutePath = Config.TerraformDirAbsolutePath
        /\ Config'.StackConfigFiles = Config.StackConfigFiles

\* C4: every processEnvVars step treats an empty variable as an unset one.
C4_EmptyEnvIsUnset == [][C4_Step]_vars

\* ATMOS_TERRAFORM_DIR is set to "" and the overrides have run: the field
\* still holds the value of the store, and another variable did override.
C4_Witness ==
    /\ pc = "check"
    /\ environ["ATMOS_TERRAFORM_DIR"] = SetTo(<<>>)
    /\ Config.TerraformDir = v["TerraformDir"]
    /\ Config.TerraformDir # <<>>
    /\ EnvSets("StackNamePattern")

(* C5: a candidate file that does not exist is skipped: the call goes on   *)
(* to the next candidate (or to the decoding) with no error and with the   *)
(* store and the record untouched. A candidate that exists but cannot be   *)
(* opened or parsed ends the call with that error: nothing is processed    *)
(* after it, the store is not decoded into the record, and no override,    *)
(* validation, normalization or discovery takes place.                     *)
C5_SkipStep ==
    (pc = "exists" /\ cfgFiles[cand].status = "absent") =>
        /\ err' = Nil
        /\ v' = v
        /\ Config' = Config
        /\ IF cand < 3
           THEN pc' = "resolve" /\ cand' = cand + 1
           ELSE pc' = "unmarshal"

\* The last step of the failing file: the failed open, or the close that
\* follows the failed parse.
IsLastStepOf(i) ==
    \/ i = Len(trail)
    \/ /\ i + 1 = Len(trail)
       /\ trail[i].op = "parsefail"
       /\ trail[i + 1] = Step("close", trail[i].k)

C5_Abort ==
    \A i \in 1..Len(trail) :
        trail[i].op \in {"openfail", "parsefail"} =>
            /\ IsLastStepOf(i)
            /\ pc = "done" \/ (pc = "close" /\ i = Len(trail))
            /\ pc = "done" =>
                  err = Error(IF trail[i].op = "openfail" THEN "Open" ELSE "Parse")
            /\ Config = prev.Config
            /\ \A j \in 1..Len(trail) :
                  /\ trail[j].k >= 1
                  /\ trail[j].k <= trail[i].k

\* C5: a missing candidate is skipped, a broken one ends the call at once.
C5_MissingSkippedBrokenAborts == []C5_Abort /\ [][C5_SkipStep]_vars

\* The system file is missing and was skipped, the home file is malformed
\* and the call has returned its parse error; the current-directory file is
\* well-formed and was never looked at.
C5_Witness ==
    /\ pc = "done"
    /\ err = Error("Parse")
    /\ trail = <<Step("absent", 1), Step("open", 2), Step("parsefail", 2),
                 Step("close", 2)>>
    /\ cfgFiles[3].status = "ok"

(* C6: validation comes after the environment overrides and before the     *)
(* path normalization. If after the overrides StackDirs is empty,          *)
(* TerraformDir is "" or StackNamePattern is "", the call returns an error *)
(* and StackDirsAbsolutePaths, TerraformDirAbsolutePath and                *)
(* StackConfigFiles are not written; the normalization is only reached     *)
(* with the three fields non-empty.                                        *)
PositionOf(op) == CHOOSE i \in 1..Len(trail) : trail[i].op = op

Incomplete(c) ==
    \/ c.StackDirs = <<>>
    \/ c.TerraformDir = <<>>
    \/ c.StackNamePattern = <<>>

\* C6: validation sits between the overrides and the normalization and
\* stops every incomplete record.
C6_ValidationGate ==
    /\ Did("check") => Did("env") /\ PositionOf("env") < PositionOf("check")
    /\ Did("abs") =>
          /\ Did("check")
          /\ PositionOf("check") < PositionOf("abs")
          /\ ~Incomplete(Config)
    /\ pc \in {"abs", "find"} => ~Incomplete(Config)
    /\ (Did("check") /\ Incomplete(Config)) =>
          /\ pc = "done"
          /\ err.kind \in {"StackDirsRequired", "TerraformDirRequired",
                           "StackNamePatternRequired"}
          /\ ~Did("abs")
          /\ ~Did("find")
          /\ Config.StackDirsAbsolutePaths = prev.Config.StackDirsAbsolutePaths
          /\ Config.TerraformDirAbsolutePath = prev.Config.TerraformDirAbsolutePath
          /\ Config.StackConfigFiles = prev.Config.StackConfigFiles

\* Only StackNamePattern is empty after the overrides: the call has returned
\* the error of that field.
C6_Witness ==
    /\ pc = "done"
    /\ Did("check")
    /\ Config.StackDirs # <<>>
    /\ Config.TerraformDir # <<>>
    /\ Config.StackNamePattern = <<>>
    /\ err = Error("StackNamePatternRequired")
    /\ Config.StackDirsAbsolutePaths = <<>>

(* C7: when the absolute stack globs, each well-formed, together match no  *)
(* file, the call fails with the error that carries the list of those      *)
(* globs and StackConfigFiles is not assigned; so a call that returns      *)
(* without error leaves StackConfigFiles non-empty.                        *)

\* The glob has an extension: a dot in its last path element.
HasExtension(p) ==
    \E i \in 1..Len(p) : p[i] = Dot /\ \A j \in (i + 1)..Len(p) : p[j] # Slash

\* The pattern a glob is matched with.
Effective(p) == IF HasExtension(p) THEN p ELSE p \o <<".", "y", "a", "m", "l">>

NoneMatches(globs) ==
    \A i \in 1..Len(globs) : \A n \in 1..Len(StackFiles) :
        ~Match(Effective(globs[i]), StackFiles[n])

\* C7: no stack file found is an error carrying the globs.
C7_NoStackFilesIsAnError ==
    /\ (Did("find") /\ NoneMatches(Config.StackDirsAbsolutePaths)
           /\ \A i \in 1..Len(Config.StackDirsAbsolutePaths) :
                  ~BadPattern(Effective(Config.StackDirsAbsolutePaths[i]))) =>
          /\ pc = "done"
          /\ err = [kind |-> "NoConfigFiles", globs |-> Config.StackDirsAbsolutePaths]
          /\ Config.StackConfigFiles = prev.Config.StackConfigFiles
    /\ (pc = "done" /\ run >= 1 /\ err = Nil) => Config.StackConfigFiles # <<>>

\* ATMOS_STACK_DIRS = "a,b,c": the globs /w/a, /w/b, /w/c match nothing.
C7_Witness ==
    /\ pc = "done"
    /\ Did("find")
    /\ err.kind = "NoConfigFiles"
    /\ Len(err.globs) = 3
    /\ Config.StackConfigFiles = <<>>

(* C8: a second InitConfig under the same files, environment and working   *)
(* directory leaves every field of Config, and the returned error, as the  *)
(* first call left them.                                                   *)
C8_Idempotent ==
    (pc = "done" /\ run >= 2) => (Config = prev.Config /\ err = prev.err)

\* A second call that went through decoding, a StackDirs override and
\* discovery.
C8_Witness ==
    /\ pc = "done"
    /\ run = 2
    /\ EnvSets("StackDirs")
    /\ FileSets(3, "StackDirs")
    /\ err = Nil
    /\ Len(Config.StackConfigFiles) = 2

(* C9: findAllStackConfigsInPaths returns the concatenation, in the order  *)
(* of the globs, of the matches of each glob in match order, a glob        *)
(* without extension being matched with ".yaml" appended and a glob with   *)
(* an extension unchanged; a file matched by several globs appears once    *)
(* for each of them.                                                       *)
RECURSIVE Offset(_, _)
\* Number of results that come before those of glob i.
Offset(globs, i) ==
    IF i = 1 THEN 0
    ELSE Offset(globs, i - 1) + Len(Glob(Effective(globs[i - 1])))

IsConcatenationOfMatches(res, globs) ==
    /\ Len(res) = Offset(globs, Len(globs) + 1)
    /\ \A i \in 1..Len(globs) :
          LET m == Glob(Effective(globs[i]))
          IN  \A n \in 1..Len(m) : res[Offset(globs, i) + n] = m[n]

\* C9: the result is the concatenation of the per-glob matches.
C9_ConcatenatedMatches ==
    Did("abs") =>
        LET found == findAllStackConfigsInPaths(Config.StackDirsAbsolutePaths)
        IN  /\ found.err = Nil =>
                  IsConcatenationOfMatches(found.res, Config.StackDirsAbsolutePaths)
            /\ (pc = "done" /\ err = Nil) => Config.StackConfigFiles = found.res

\* ["/w/**/a", "/w/s2/*.yaml"]: the first glob gets ".yaml" and matches three
\* files, the second keeps its extension and matches /w/s2/a.yaml again.
C9_Witness ==
    /\ pc = "done"
    /\ err = Nil
    /\ Len(Config.StackDirsAbsolutePaths) = 2
    /\ ~HasExtension(Config.StackDirsAbsolutePaths[1])
    /\ HasExtension(Config.StackDirsAbsolutePaths[2])
    /\ Len(Config.StackConfigFiles) = 4
    /\ Config.StackConfigFiles[2] = Config.StackConfigFiles[4]

(* C10: a file opened by processConfigFile is closed before it returns, on *)
(* the success path and on the parse-error path: at most one file is open  *)
(* at any moment, and none outside the merge of a candidate, in particular *)
(* when the next candidate is processed or InitConfig has returned.        *)
C10_FilesClosed ==
    /\ Cardinality(openFiles) <= 1
    /\ pc \notin {"merge", "close"} => openFiles = {}
    /\ pc \in {"merge", "close"} => openFiles = {cand}

\* The call has returned the parse error of a file it had opened.
C10_Witness ==
    /\ pc = "done"
    /\ err = Error("Parse")
    /\ Did("open")
    /\ Did("close")
    /\ openFiles = {}

====
